---- MODULE Spec2Model ----
(***************************************************************************)
(* TimerTrack (bruceniyibitanga/projecttimetracker): the timer page        *)
(* src/timertrack/app/page.tsx as a state machine.                          *)
(*                                                                         *)
(* Time is the epoch-millisecond axis of Date.now(), scaled down: one       *)
(* minute is MsPerMin ticks, one day MinPerDay minutes.  Strings are        *)
(* sequences of one-character strings, so that trim and split are           *)
(* computed.  A nullable number is <<>> (null) or <<n>>.                    *)
(***************************************************************************)
EXTENDS Integers, Sequences, FiniteSets, TLC

(* ----------------------------- bounds ---------------------------------- *)
\* ticks per minute (60 * 1000 ms in the source, scaled)
MsPerMin == 2
\* minutes per day (24 * 60 in the source, scaled)
MinPerDay == 2
\* number of ticks the clock advances after the page is mounted
MaxTicks == 4
\* longest session collection explored
MaxSessions == 2
\* largest value typed into the Pomodoro minute inputs
MaxPomoMin == 2
\* the initial focus and break minutes (25 and 5 in the source, scaled)
DefaultFocusMin == 1
DefaultBreakMin == 1
\* how far "Previous" is clicked
MaxWeeksBack == 1
\* largest delay between two Date.now() reads of one handler
MaxDrift == 1
\* distinct values of the random suffix of a manual id
NumRand == 1

(* -------------------------- program constants -------------------------- *)
\* a week has 7 days (setDate(getDate() + 6) after the move to Monday)
DaysPerWeek == 7
\* getDay() of the epoch day (1970-01-01 is a Thursday)
EpochWeekday == 4

DayLen == MsPerMin * MinPerDay
WeekLen == DaysPerWeek * DayLen
\* the clock reading when the page is mounted: Sunday, the last day of the
\* week [16, 43], so that the clock crosses the week boundary
MountTime == (EpochWeekday + 6) * DayLen + MsPerMin
MaxTime == MountTime + MaxTicks

(* ----------------------------- strings --------------------------------- *)
EmptyStr == <<>>
UntitledTask == <<"U", "n", "t", "i", "t", "l", "e", "d", " ", "T", "a", "s", "k">>

RECURSIVE TrimStart(_)
TrimStart(s) ==
  IF s # <<>> /\ Head(s) = " " THEN TrimStart(Tail(s)) ELSE s

RECURSIVE TrimEnd(_)
TrimEnd(s) ==
  IF s # <<>> /\ s[Len(s)] = " " THEN TrimEnd(SubSeq(s, 1, Len(s) - 1)) ELSE s

\* String.prototype.trim
Trim(s) == TrimEnd(TrimStart(s))

\* s.split(","): the pieces between the commas (one piece for a string
\* without comma, also for the empty string)
RECURSIVE SplitFrom(_, _, _)
SplitFrom(s, i, cur) ==
  IF i > Len(s) THEN <<cur>>
  ELSE IF s[i] = "," THEN <<cur>> \o SplitFrom(s, i + 1, <<>>)
  ELSE SplitFrom(s, i + 1, Append(cur, s[i]))

Split(s) == SplitFrom(s, 1, <<>>)

RECURSIVE MapTrim(_)
MapTrim(list) ==
  IF list = <<>> THEN <<>> ELSE <<Trim(Head(list))>> \o MapTrim(Tail(list))

RECURSIVE FilterBoolean(_)
FilterBoolean(list) ==
  IF list = <<>> THEN <<>>
  ELSE IF Head(list) = <<>> THEN FilterBoolean(Tail(list))
  ELSE <<Head(list)>> \o FilterBoolean(Tail(list))

\* input.split(",").map((t) => t.trim()).filter(Boolean)
parseTags(input) == FilterBoolean(MapTrim(Split(input)))

\* a || b for strings: the empty string is falsy
OrStr(a, b) == IF a # <<>> THEN a ELSE b

(* ------------------------------ numbers -------------------------------- *)
Max(a, b) == IF a >= b THEN a ELSE b
Min(a, b) == IF a <= b THEN a ELSE b

Null == <<>>
Some(n) == <<n>>
Val(x) == x[1]
\* x ?? 0
OrZero(x) == IF x = Null THEN 0 ELSE Val(x)

(* ------------------------------- dates --------------------------------- *)
startOfDay(t) == (t \div DayLen) * DayLen
endOfDay(t) == startOfDay(t) + DayLen - 1
getDay(t) == ((t \div DayLen) + EpochWeekday) % DaysPerWeek

startOfWeek(t) ==
  LET day == getDay(t)
      diffToMonday == (IF day = 0 THEN -6 ELSE 1) - day
  IN  startOfDay(t + diffToMonday * DayLen)

endOfWeek(t) == endOfDay(startOfWeek(t) + 6 * DayLen)

\* the difference without the clamp at 0
clampUnclamped(startA, endA, startB, endB) ==
  Min(endA, endB) - Max(startA, startB)

\* the span of the two intervals instead of their intersection
clampSpan(startA, endA, startB, endB) ==
  Max(0, Max(endA, endB) - Min(startA, startB))

\* an overlap measured from the start of the session only
clampFromSessionStart(startA, endA, startB, endB) ==
  Max(0, Min(endA, endB) - startA)

clampToRangeOverlap(startA, endA, startB, endB) ==
  LET start == Max(startA, startB)
      end == Min(endA, endB)
  IN  Max(0, end - start)

(* ------------------------------- state --------------------------------- *)
VARIABLES
  now,                  \* the environment's clock, Date.now()
  taskTitle,            \* the task-title input
  currentTagsInput,     \* the tags input
  isRunning,
  runningStartMs,       \* Null or Some(ms)
  runningTitle,
  sessions,             \* the session collection, newest first
  showEntryModal,
  editingSession,       \* Null or Some(session)
  selectedWeekOffset,
  todayStart, todayEnd, \* memoised once, at mount
  weekStart, weekEnd,   \* memoised per selectedWeekOffset
  pomodoroEnabled,
  pomodoroFocusMin,
  pomodoroBreakMin,
  pomodoroAutoContinue,
  pomodoroPhase,        \* "idle", "focus" or "break"
  pomodoroEndMs,        \* Null or Some(ms)
  storage,              \* localStorage: the values under the persisted keys
  alert,                \* the alert raised by the last operation, or NoAlert
  lastOp,               \* the last operation and its outcome
  args,                 \* the arguments of a call of clampToRangeOverlap
  result                \* Null, or Some(what the call returned)

timerVars == <<isRunning, runningStartMs, runningTitle>>
pomoVars == <<pomodoroPhase, pomodoroEndMs>>
pomoSettings ==
  <<pomodoroEnabled, pomodoroFocusMin, pomodoroBreakMin, pomodoroAutoContinue>>
inputVars == <<taskTitle, currentTagsInput>>
modalVars == <<showEntryModal, editingSession>>
weekVars == <<selectedWeekOffset, weekStart, weekEnd>>
dayVars == <<todayStart, todayEnd>>

vars ==
  <<now, taskTitle, currentTagsInput, isRunning, runningStartMs,
    runningTitle, sessions, showEntryModal, editingSession,
    selectedWeekOffset, todayStart, todayEnd, weekStart, weekEnd,
    pomodoroEnabled, pomodoroFocusMin, pomodoroBreakMin,
    pomodoroAutoContinue, pomodoroPhase, pomodoroEndMs, storage, alert,
    lastOp, args, result>>

pageVars ==
  <<now, taskTitle, currentTagsInput, isRunning, runningStartMs,
    runningTitle, sessions, showEntryModal, editingSession,
    selectedWeekOffset, todayStart, todayEnd, weekStart, weekEnd,
    pomodoroEnabled, pomodoroFocusMin, pomodoroBreakMin,
    pomodoroAutoContinue, pomodoroPhase, pomodoroEndMs, storage, alert,
    lastOp>>
callVars == <<args, result>>

\* const nowMs = Date.now() of the render: a handler that changes state is
\* followed by a render, and while a timer runs the one-second interval
\* renders the page again, so at the scale of a tick the render is current
nowMs == now

NoAlert == "none"
TitleAlert == "Please enter a task title before starting the timer."
RangeAlert == "Please provide a valid date/time range."
FutureAlert == "Cannot add sessions in the future."

(* the values the user types *)
TitleInputs == { <<" ">>, <<"a">>, <<" ", "b">> }
TagInputs == { <<"x", ",", " ", "y", ",", "x">> }

\* the minutes of a setting taken as milliseconds
MinToMsUnscaled(m) == m

\* pomodoroFocusMin * 60 * 1000
MinToMs(m) == m * MsPerMin

(* --------------------------- persistence ------------------------------- *)
\* the persist effects, run after the render that follows a handler
persisted(sess, running, startMs, rTitle, tTitle, en, focus, brk, auto) ==
  [ sessions |-> sess,
    running |-> [ isRunning |-> running,
                  startMs |-> startMs,
                  title |-> IF running THEN OrStr(rTitle, tTitle) ELSE EmptyStr ],
    pomodoro |-> [ enabled |-> en, focus |-> focus, break |-> brk, auto |-> auto ] ]

Persist ==
  /\ storage' = persisted(sessions', isRunning', runningStartMs', runningTitle',
                          taskTitle', pomodoroEnabled', pomodoroFocusMin',
                          pomodoroBreakMin', pomodoroAutoContinue')
  /\ UNCHANGED callVars

(* ------------------------------- Init ---------------------------------- *)
\* localStorage before the first visit
EmptyStorage ==
  [ sessions |-> <<>>,
    running |-> [ isRunning |-> FALSE, startMs |-> Null, title |-> EmptyStr ],
    pomodoro |-> [ enabled |-> FALSE, focus |-> DefaultFocusMin,
                   break |-> DefaultBreakMin, auto |-> TRUE ] ]

\* the running record is restored when isRunning is set and startMs is a number
restoresRunning(st) == st.running.isRunning /\ st.running.startMs # Null

\* the page after its mount (the useState defaults, the load effect and the
\* persist effects) over the stored values st
mount(st) ==
  /\ now = MountTime
  /\ taskTitle = IF restoresRunning(st) THEN st.running.title ELSE EmptyStr
  /\ currentTagsInput = EmptyStr
  /\ isRunning = restoresRunning(st)
  /\ runningStartMs = IF restoresRunning(st) THEN st.running.startMs ELSE Null
  /\ runningTitle = IF restoresRunning(st) THEN st.running.title ELSE EmptyStr
  /\ sessions = st.sessions
  /\ showEntryModal = FALSE
  /\ editingSession = Null
  /\ selectedWeekOffset = 0
  /\ todayStart = startOfDay(MountTime)
  /\ todayEnd = endOfDay(MountTime)
  /\ weekStart = startOfWeek(MountTime)
  /\ weekEnd = endOfWeek(MountTime)
  /\ pomodoroEnabled = st.pomodoro.enabled
  /\ pomodoroFocusMin = st.pomodoro.focus
  /\ pomodoroBreakMin = st.pomodoro.break
  /\ pomodoroAutoContinue = st.pomodoro.auto
  /\ pomodoroPhase = "idle"
  /\ pomodoroEndMs = Null
  /\ storage = persisted(sessions, isRunning, runningStartMs, runningTitle,
                         taskTitle, pomodoroEnabled, pomodoroFocusMin,
                         pomodoroBreakMin, pomodoroAutoContinue)
  /\ alert = NoAlert
  /\ lastOp = "mount"

NoCall == args = Null /\ result = Null

\* the first visit: localStorage is empty
Init == mount(EmptyStorage) /\ NoCall

(* --------------------------- timer handlers ---------------------------- *)
\* a handler that returns before any setState
NoStateChange ==
  UNCHANGED <<now, inputVars, timerVars, sessions, modalVars, weekVars,
              dayVars, pomoSettings, pomoVars, storage, callVars>>

\* the reads of Date.now() after the first one of a handler see the clock d
\* ticks later
Drifts == { d \in 0..MaxDrift : now + d <= MaxTime }

\* `${runningStartMs}-${end}`
RunId(start, end) == <<"run", start, end>>
\* `manual-${Date.now()}-${Math.random().toString(36).slice(2, 8)}`
ManualId(t, r) == <<"manual", t, r>>

\* a title taken from the task input alone, as a start request takes it
titleFromInputOnly == Trim(taskTitle)

\* a title that prefers the title the timer was started with
titleRunningFirst == OrStr(runningTitle, OrStr(Trim(taskTitle), UntitledTask))

\* a title taken from the task input as it is
titleUntrimmed == taskTitle

\* taskTitle.trim() || runningTitle || "Untitled Task"
titleOrFallback == OrStr(Trim(taskTitle), OrStr(runningTitle, UntitledTask))

\* a pause that forgets the sessions recorded before
prependDropsPrev(newSession, prev) == <<newSession>>

\* setSessions((prev) => [newSession, ...prev])
prepend(newSession, prev) == <<newSession>> \o prev

\* a start that does not look at the running slot
alreadyRunningIgnored == FALSE

\* if (isRunning) return
alreadyRunning == isRunning

\* a start that tests the title as typed
startTitleUntrimmed == taskTitle

\* const title = taskTitle.trim()
startTitle == Trim(taskTitle)

handleStart ==
  IF alreadyRunning
    THEN lastOp' = "startIgnored" /\ alert' = NoAlert /\ NoStateChange
  ELSE
    LET title == startTitle IN
    IF title = EmptyStr
      THEN lastOp' = "startRejected" /\ alert' = TitleAlert /\ NoStateChange
    ELSE
      \E d \in Drifts :
        /\ lastOp' = "start"
        /\ alert' = NoAlert
        /\ runningTitle' = title
        /\ runningStartMs' = Some(now)
        /\ isRunning' = TRUE
        /\ IF pomodoroEnabled
             THEN /\ pomodoroPhase' = "focus"
                  /\ pomodoroEndMs' = Some(now + d + MinToMs(pomodoroFocusMin))
             ELSE /\ pomodoroPhase' = "idle"
                  /\ pomodoroEndMs' = Null
        /\ now' = now + d
        /\ UNCHANGED <<inputVars, sessions, modalVars, weekVars, dayVars,
                       pomoSettings>>
        /\ Persist

\* the body of handlePause; its first Date.now() reads end, the second one
\* end + d.  A call while no timer runs returns at once.
PauseBody(end) ==
  /\ isRunning /\ runningStartMs # Null
  /\ \E d \in { e \in 0..MaxDrift : end + e <= MaxTime } :
      LET newSession ==
            [ id |-> RunId(Val(runningStartMs), end),
              title |-> titleOrFallback,
              startMs |-> Val(runningStartMs),
              endMs |-> end,
              tags |-> parseTags(currentTagsInput) ]
      IN
      /\ Len(sessions) < MaxSessions
      /\ alert' = NoAlert
      /\ sessions' = prepend(newSession, sessions)
      /\ isRunning' = FALSE
      /\ runningStartMs' = Null
      /\ runningTitle' = EmptyStr
      /\ IF pomodoroEnabled
           THEN /\ pomodoroPhase' = "break"
                /\ pomodoroEndMs' = Some(end + d + MinToMs(pomodoroBreakMin))
           ELSE UNCHANGED pomoVars
      /\ now' = end + d
      /\ UNCHANGED <<inputVars, modalVars, weekVars, dayVars, pomoSettings>>
      /\ Persist

handlePause == lastOp' = "pause" /\ PauseBody(now)

\* a ticker that ends the focus phase and never the break
pomodoroTickerFocusOnly ==
  /\ pomodoroEnabled
  /\ pomodoroEndMs # Null /\ pomodoroEndMs # Some(0)
  /\ pomodoroPhase = "focus" /\ isRunning /\ now >= Val(pomodoroEndMs)
  /\ lastOp' = "autoPause"
  /\ \E d0 \in Drifts : PauseBody(now + d0)

\* the callback of the Pomodoro interval; it returns at once unless a phase
\* is over
pomodoroTicker ==
  /\ pomodoroEnabled
  /\ pomodoroEndMs # Null /\ pomodoroEndMs # Some(0)
  /\ IF pomodoroPhase = "focus" /\ isRunning /\ now >= Val(pomodoroEndMs)
       THEN lastOp' = "autoPause" /\ \E d0 \in Drifts : PauseBody(now + d0)
     ELSE
       /\ pomodoroPhase = "break" /\ ~isRunning /\ now >= Val(pomodoroEndMs)
       /\ IF pomodoroAutoContinue
            THEN \E d \in Drifts :
                   LET start == now + d IN
                   /\ lastOp' = "autoContinue"
                   /\ alert' = NoAlert
                   /\ runningTitle' = titleOrFallback
                   /\ runningStartMs' = Some(start)
                   /\ isRunning' = TRUE
                   /\ pomodoroPhase' = "focus"
                   /\ pomodoroEndMs' = Some(start + MinToMs(pomodoroFocusMin))
                   /\ now' = start
                   /\ UNCHANGED <<inputVars, sessions, modalVars, weekVars,
                                  dayVars, pomoSettings>>
                   /\ Persist
            ELSE /\ lastOp' = "breakOver"
                 /\ alert' = NoAlert
                 /\ pomodoroPhase' = "idle"
                 /\ pomodoroEndMs' = Null
                 /\ UNCHANGED <<now, inputVars, timerVars, sessions,
                                modalVars, weekVars, dayVars, pomoSettings>>
                 /\ Persist

\* the clock advances
tick ==
  /\ now < MaxTime
  /\ now' = now + 1
  /\ UNCHANGED <<inputVars, timerVars, sessions, modalVars, weekVars, dayVars,
                 pomoSettings, pomoVars, storage, alert, lastOp, callVars>>

(* ------------------------------- inputs -------------------------------- *)
setTaskTitle(v) ==
  /\ v # taskTitle
  /\ taskTitle' = v
  /\ alert' = NoAlert
  /\ lastOp' = "other"
  /\ UNCHANGED <<now, currentTagsInput, timerVars, sessions, modalVars,
                 weekVars, dayVars, pomoSettings, pomoVars>>
  /\ Persist

setCurrentTagsInput(v) ==
  /\ v # currentTagsInput
  /\ currentTagsInput' = v
  /\ alert' = NoAlert
  /\ lastOp' = "other"
  /\ UNCHANGED <<now, taskTitle, timerVars, sessions, modalVars, weekVars,
                 dayVars, pomoSettings, pomoVars>>
  /\ Persist

\* an Enable checkbox that also puts the phase back to idle and leaves
\* pomodoroEndMs as it is
setPomodoroEnabledResetsPhase ==
  /\ pomodoroEnabled' = ~pomodoroEnabled
  /\ pomodoroPhase' = "idle"
  /\ alert' = NoAlert
  /\ lastOp' = "other"
  /\ UNCHANGED <<now, inputVars, timerVars, sessions, modalVars, weekVars,
                 dayVars, pomodoroFocusMin, pomodoroBreakMin,
                 pomodoroAutoContinue, pomodoroEndMs>>
  /\ Persist

\* the Pomodoro section: the Enable and Auto-continue checkboxes and the
\* minute inputs, Math.max(1, Number(value) || 1)
setPomodoroEnabled ==
  /\ pomodoroEnabled' = ~pomodoroEnabled
  /\ alert' = NoAlert
  /\ lastOp' = "other"
  /\ UNCHANGED <<now, inputVars, timerVars, sessions, modalVars, weekVars,
                 dayVars, pomodoroFocusMin, pomodoroBreakMin,
                 pomodoroAutoContinue, pomoVars>>
  /\ Persist

setPomodoroAutoContinue ==
  /\ pomodoroAutoContinue' = ~pomodoroAutoContinue
  /\ alert' = NoAlert
  /\ lastOp' = "other"
  /\ UNCHANGED <<now, inputVars, timerVars, sessions, modalVars, weekVars,
                 dayVars, pomodoroEnabled, pomodoroFocusMin, pomodoroBreakMin,
                 pomoVars>>
  /\ Persist

setPomodoroFocusMin(n) ==
  /\ Max(1, n) # pomodoroFocusMin
  /\ pomodoroFocusMin' = Max(1, n)
  /\ alert' = NoAlert
  /\ lastOp' = "other"
  /\ UNCHANGED <<now, inputVars, timerVars, sessions, modalVars, weekVars,
                 dayVars, pomodoroEnabled, pomodoroBreakMin,
                 pomodoroAutoContinue, pomoVars>>
  /\ Persist

setPomodoroBreakMin(n) ==
  /\ Max(1, n) # pomodoroBreakMin
  /\ pomodoroBreakMin' = Max(1, n)
  /\ alert' = NoAlert
  /\ lastOp' = "other"
  /\ UNCHANGED <<now, inputVars, timerVars, sessions, modalVars, weekVars,
                 dayVars, pomodoroEnabled, pomodoroFocusMin,
                 pomodoroAutoContinue, pomoVars>>
  /\ Persist

(* --------------------------- week navigation --------------------------- *)
\* selectedDate: new Date() moved by selectedWeekOffset * 7 days
selectedDate(t, offset) == t + offset * DaysPerWeek * DayLen

setSelectedWeekOffset(offset) ==
  /\ offset # selectedWeekOffset
  /\ selectedWeekOffset' = offset
  /\ weekStart' = startOfWeek(selectedDate(now, offset))
  /\ weekEnd' = endOfWeek(selectedDate(now, offset))
  /\ lastOp' = "other"
  /\ alert' = NoAlert
  /\ UNCHANGED <<now, inputVars, timerVars, sessions, modalVars, dayVars,
                 pomoSettings, pomoVars>>
  /\ Persist

isCurrentWeek == selectedWeekOffset = 0

previousWeek ==
  /\ selectedWeekOffset > -MaxWeeksBack
  /\ setSelectedWeekOffset(selectedWeekOffset - 1)

todayWeek ==
  /\ setSelectedWeekOffset(0)

\* disabled={isCurrentWeek}
nextWeek ==
  /\ ~isCurrentWeek
  /\ setSelectedWeekOffset(selectedWeekOffset + 1)

(* ------------------------------- totals -------------------------------- *)
\* a selection that wants a positive overlap
inRangeStrict(s, start, end) == Max(s.startMs, start) < Min(s.endMs, end)

\* (s) => Math.max(s.startMs, start) <= Math.min(s.endMs, end)
inRange(s, start, end) == Max(s.startMs, start) <= Min(s.endMs, end)

RECURSIVE sessionsInRange(_, _, _)
sessionsInRange(list, start, end) ==
  IF list = <<>> THEN <<>>
  ELSE IF inRange(Head(list), start, end)
    THEN <<Head(list)>> \o sessionsInRange(Tail(list), start, end)
  ELSE sessionsInRange(Tail(list), start, end)

\* list.sort((a, b) => b.startMs - a.startMs): stable, newest start first
RECURSIVE insertByStart(_, _)
insertByStart(s, sorted) ==
  IF sorted = <<>> THEN <<s>>
  ELSE IF Head(sorted).startMs >= s.startMs
    THEN <<Head(sorted)>> \o insertByStart(s, Tail(sorted))
  ELSE <<s>> \o sorted

RECURSIVE sortByStartDesc(_)
sortByStartDesc(list) ==
  IF list = <<>> THEN <<>>
  ELSE insertByStart(list[Len(list)],
                     sortByStartDesc(SubSeq(list, 1, Len(list) - 1)))

weekSessionsSorted == sortByStartDesc(sessionsInRange(sessions, weekStart, weekEnd))

(* ----------------------------- entry modal ----------------------------- *)
\* "+ Entry"
openEntry ==
  /\ editingSession' = Null
  /\ showEntryModal' = TRUE
  /\ alert' = NoAlert
  /\ lastOp' = "other"
  /\ UNCHANGED <<now, inputVars, timerVars, sessions, weekVars, dayVars,
                 pomoSettings, pomoVars>>
  /\ Persist

\* "Edit" on a row of the week list
openEdit(i) ==
  /\ editingSession' = Some(weekSessionsSorted[i])
  /\ showEntryModal' = TRUE
  /\ alert' = NoAlert
  /\ lastOp' = "other"
  /\ UNCHANGED <<now, inputVars, timerVars, sessions, weekVars, dayVars,
                 pomoSettings, pomoVars>>
  /\ Persist

\* "Cancel" and the close button of the modal
cancelEntry ==
  /\ showEntryModal
  /\ showEntryModal' = FALSE
  /\ alert' = NoAlert
  /\ lastOp' = "other"
  /\ UNCHANGED <<now, inputVars, timerVars, sessions, editingSession, weekVars,
                 dayVars, pomoSettings, pomoVars>>
  /\ Persist

RECURSIVE removeId(_, _)
removeId(list, id) ==
  IF list = <<>> THEN <<>>
  ELSE IF Head(list).id # id THEN <<Head(list)>> \o removeId(Tail(list), id)
  ELSE removeId(Tail(list), id)

\* "Delete" on a row of the week list
deleteSession(i) ==
  /\ sessions' = removeId(sessions, weekSessionsSorted[i].id)
  /\ alert' = NoAlert
  /\ lastOp' = "delete"
  /\ UNCHANGED <<now, inputVars, timerVars, modalVars, weekVars, dayVars,
                 pomoSettings, pomoVars>>
  /\ Persist

(* the entry form: date is Null (empty) or Some(day number), a time is Null
   (empty) or Some(minute of the day) *)
MountDay == MountTime \div DayLen
FormTimes == { Null } \cup { Some(m) : m \in 0..(MinPerDay - 1) }
form(title, date, startTime, endTime, tags) ==
  [ title |-> title, date |-> date, startTime |-> startTime,
    endTime |-> endTime, tags |-> tags ]
\* the forms the user saves: valid ones on the day of the mount and on the
\* next day, and ones with a missing or an inverted field
EntryForms ==
  { form(<<"c">>, Some(MountDay), Some(0), Some(1), <<"x", ",", " ", "y", ",", "x">>),
    form(<<" ">>, Some(MountDay + 1), Some(0), Some(1), <<>>),
    form(<<"c">>, Null, Some(0), Some(1), <<>>),
    form(<<"c">>, Some(MountDay), Some(0), Null, <<>>),
    form(<<"c">>, Some(MountDay), Null, Some(1), <<>>),
    form(<<"c">>, Some(MountDay), Some(1), Some(1), <<>>),
    form(<<"c">>, Some(MountDay), Some(1), Some(0), <<>>) }

\* the local date at the minute hh:mm of the day, seconds and milliseconds 0
parseDateTimeLocal(dateStr, timeStr) ==
  IF dateStr = Null \/ timeStr = Null THEN Null
  ELSE Some(Val(dateStr) * DayLen + Val(timeStr) * MsPerMin)

formatDateForInput(t) == Some(t \div DayLen)
formatTimeForInput(t) == Some((t % DayLen) \div MsPerMin)

\* an edit that overwrites the fields of every session
RECURSIVE replaceEditedAll(_, _, _)
replaceEditedAll(list, id, fields) ==
  IF list = <<>> THEN <<>>
  ELSE <<[ Head(list) EXCEPT !.title = fields.title, !.startMs = fields.startMs,
                             !.endMs = fields.endMs, !.tags = fields.tags ]>>
       \o replaceEditedAll(Tail(list), id, fields)

RECURSIVE replaceEdited(_, _, _)
replaceEdited(list, id, fields) ==
  IF list = <<>> THEN <<>>
  ELSE LET it == Head(list) IN
       <<IF it.id = id
           THEN [ it EXCEPT !.title = fields.title, !.startMs = fields.startMs,
                            !.endMs = fields.endMs, !.tags = fields.tags ]
           ELSE it>> \o replaceEdited(Tail(list), id, fields)

\* if (!start || !end || end <= start)
invalidRange(start, end) == start = Null \/ end = Null \/ Val(end) <= Val(start)

\* a save without the check against the clock
inFutureNever(end) == FALSE

\* const now = new Date(); if (end > now)
inFuture(end) == Val(end) > now

\* "Save" of the entry modal, with the form as the user left it
saveEntry(entryForm, rand) ==
  /\ showEntryModal
  /\ LET start == parseDateTimeLocal(entryForm.date, entryForm.startTime)
         end == parseDateTimeLocal(entryForm.date, entryForm.endTime)
     IN
     IF invalidRange(start, end)
       THEN lastOp' = "saveRejected" /\ alert' = RangeAlert /\ NoStateChange
     ELSE IF inFuture(end)
       THEN lastOp' = "saveRejected" /\ alert' = FutureAlert /\ NoStateChange
     ELSE
       LET fields == [ title |-> OrStr(Trim(entryForm.title), UntitledTask),
                       startMs |-> Val(start),
                       endMs |-> Val(end),
                       tags |-> parseTags(entryForm.tags) ]
       IN
       /\ alert' = NoAlert
       /\ IF editingSession # Null
            THEN /\ lastOp' = "saveEdited"
                 /\ sessions' = replaceEdited(sessions, Val(editingSession).id, fields)
            ELSE /\ lastOp' = "saveCreated"
                 /\ Len(sessions) < MaxSessions
                 /\ sessions' =
                      prepend([ id |-> ManualId(now, rand),
                                title |-> fields.title,
                                startMs |-> fields.startMs,
                                endMs |-> fields.endMs,
                                tags |-> fields.tags ], sessions)
       /\ showEntryModal' = FALSE
       /\ editingSession' = Null
       /\ UNCHANGED <<now, inputVars, timerVars, weekVars, dayVars,
                      pomoSettings, pomoVars>>
       /\ Persist

(* ---------------------- totals (the useMemo) --------------------------- *)
\* list.reduce((acc, s) => acc + clampToRangeOverlap(s.startMs, s.endMs, start, end), 0)
RECURSIVE durations(_, _, _)
durations(list, start, end) ==
  IF list = <<>> THEN 0
  ELSE clampToRangeOverlap(Head(list).startMs, Head(list).endMs, start, end)
       + durations(Tail(list), start, end)

todaySessions == sessionsInRange(sessions, todayStart, todayEnd)
weekSessions == sessionsInRange(sessions, weekStart, weekEnd)

\* map.set(key, overlap): the entry is overwritten, not added to
mapSet(map, key, overlap) ==
  [ k \in DOMAIN map \cup {key} |-> IF k = key THEN overlap ELSE map[k] ]

\* map.set(key, (map.get(key) || 0) + overlap); a Map is a function on its keys
mapAdd(map, key, overlap) ==
  [ k \in DOMAIN map \cup {key} |->
      IF k = key THEN (IF key \in DOMAIN map THEN map[key] ELSE 0) + overlap
      ELSE map[k] ]

EmptyMap == [ k \in {} |-> 0 ]

RECURSIVE perTaskAcc(_, _)
perTaskAcc(list, map) ==
  IF list = <<>> THEN map
  ELSE LET s == Head(list)
           overlap == clampToRangeOverlap(s.startMs, s.endMs, weekStart, weekEnd)
       IN  perTaskAcc(Tail(list), mapAdd(map, s.title, overlap))

\* an accumulation that counts a tag once per session
RECURSIVE addTagsOnce(_, _, _)
addTagsOnce(tags, overlap, map) ==
  IF tags = <<>> THEN map
  ELSE IF \E k \in 2..Len(tags) : tags[k] = Head(tags)
    THEN addTagsOnce(Tail(tags), overlap, map)
  ELSE addTagsOnce(Tail(tags), overlap, mapAdd(map, Head(tags), overlap))

\* an accumulation that credits only the first tag of a session
addTagsFirst(tags, overlap, map) ==
  IF tags = <<>> THEN map ELSE mapAdd(map, Head(tags), overlap)

\* for (const tag of s.tags) perTag.set(tag, (perTag.get(tag) || 0) + overlap)
RECURSIVE addTags(_, _, _)
addTags(tags, overlap, map) ==
  IF tags = <<>> THEN map
  ELSE addTags(Tail(tags), overlap, mapAdd(map, Head(tags), overlap))

RECURSIVE perTagAcc(_, _)
perTagAcc(list, map) ==
  IF list = <<>> THEN map
  ELSE LET s == Head(list)
           overlap == clampToRangeOverlap(s.startMs, s.endMs, weekStart, weekEnd)
       IN  perTagAcc(Tail(list), addTags(s.tags, overlap, map))

perTaskWeekTotals == perTaskAcc(weekSessions, EmptyMap)
perTagWeekTotals == perTagAcc(weekSessions, EmptyMap)

\* the provisional interval added whether or not a timer runs
runningTermAlways(start, end) ==
  clampToRangeOverlap(OrZero(runningStartMs), nowMs, start, end)

\* isRunning ? clampToRangeOverlap(runningStartMs ?? 0, nowMs, start, end) : 0
runningTerm(start, end) ==
  IF isRunning
    THEN clampToRangeOverlap(OrZero(runningStartMs), nowMs, start, end)
    ELSE 0

todayTotalMs ==
  durations(todaySessions, todayStart, todayEnd) + runningTerm(todayStart, todayEnd)

weekTotalMs ==
  durations(weekSessions, weekStart, weekEnd) + runningTerm(weekStart, weekEnd)

(* ------------------------------- export -------------------------------- *)
\* "23:59", the last minute of the day
LastMinute == MinPerDay - 1

\* (s.tags || []).some((t) => tags.includes(t))
someTagIncluded(s, tags) ==
  \E i \in 1..Len(s.tags), j \in 1..Len(tags) : s.tags[i] = tags[j]

\* parseDateTimeLocal(form.endDate, "23:59")
exportEnd(endDate) == parseDateTimeLocal(endDate, Some(LastMinute))

RECURSIVE filterTags(_, _)
filterTags(list, tags) ==
  IF list = <<>> THEN <<>>
  ELSE (IF tags = <<>> \/ someTagIncluded(Head(list), tags)
          THEN <<Head(list)>> ELSE <<>>) \o filterTags(Tail(list), tags)

\* the export form as the week effect resets it
defaultExportForm ==
  [ startDate |-> formatDateForInput(weekStart),
    endDate |-> formatDateForInput(weekEnd),
    tagsCsv |-> EmptyStr ]

\* the export forms the user leaves: the dates of the displayed week, today
\* ("To Present") or no date; no tags filter or the filter "x"
ExportForms ==
  { [ startDate |-> sd, endDate |-> ed, tagsCsv |-> tg ] :
      sd \in { Null, formatDateForInput(weekStart), formatDateForInput(now) },
      ed \in { Null, formatDateForInput(weekEnd), formatDateForInput(now) },
      tg \in { EmptyStr, <<"x">> } }

\* handleExportFiltered(format, form, sessions): args is the form, result the
\* sessions written to the file
handleExportFiltered(exportForm) ==
  /\ args = Null /\ result = Null
  /\ LET start == parseDateTimeLocal(exportForm.startDate, Some(0))
         end == exportEnd(exportForm.endDate)
     IN  /\ start # Null /\ end # Null
         /\ result' = Some(filterTags(sessionsInRange(sessions, Val(start), Val(end)),
                                      parseTags(exportForm.tagsCsv)))
  /\ args' = <<exportForm>>
  /\ UNCHANGED pageVars

(* ------------------- a call of clampToRangeOverlap --------------------- *)
\* the coordinates of the intervals handed to the function
MaxCoord == 3

callOverlap ==
  /\ args # Null /\ result = Null
  /\ result' = Some(clampToRangeOverlap(args[1], args[2], args[3], args[4]))
  /\ UNCHANGED <<pageVars, args>>

InitOverlap ==
  /\ mount(EmptyStorage)
  /\ args \in (0..MaxCoord) \X (0..MaxCoord) \X (0..MaxCoord) \X (0..MaxCoord)
  /\ result = Null

(* --------------------- the report page's week bounds ------------------- *)
\* d.setDate(d.getDate() - day + (day === 0 ? -6 : 1)): the day moves, the
\* time of day stays
reportStartOfWeek(t) ==
  LET day == getDay(t)
  IN  t + ((IF day = 0 THEN -6 ELSE 1) - day) * DayLen

\* d.setDate(d.getDate() - day + (day === 0 ? 0 : 7))
reportEndOfWeek(t) ==
  LET day == getDay(t)
  IN  t + ((IF day = 0 THEN 0 ELSE 7) - day) * DayLen

(* ------------------------ a call of the week bounds -------------------- *)
\* the anchors: every instant of two consecutive weeks
Anchors == WeekLen..(3 * WeekLen - 1)

\* startOfWeek(date), endOfWeek(date) of the timer page
callWeekBounds ==
  /\ args # Null /\ result = Null
  /\ result' = <<"timer", startOfWeek(args[1]), endOfWeek(args[1])>>
  /\ UNCHANGED <<pageVars, args>>

\* startOfWeek(date), endOfWeek(date) of the report page
callReportWeekBounds ==
  /\ args # Null /\ result = Null
  /\ result' = <<"report", reportStartOfWeek(args[1]), reportEndOfWeek(args[1])>>
  /\ UNCHANGED <<pageVars, args>>

InitWeek ==
  /\ mount(EmptyStorage)
  /\ args \in { <<t>> : t \in Anchors }
  /\ result = Null

(* ------------------- the page over stored sessions --------------------- *)
\* the session lists found under the sessions key: sessions around the
\* boundaries of the week of the mount, also ones that no handler writes
\* (endMs <= startMs)
MaxStored == 2
StoredTimes ==
  { startOfWeek(MountTime) - 1, startOfWeek(MountTime),
    endOfWeek(MountTime), endOfWeek(MountTime) + 1 }
StoredSessions ==
  { [ id |-> RunId(t[1], t[2]), title |-> ti, startMs |-> t[1],
      endMs |-> t[2], tags |-> tg ] :
      t \in StoredTimes \X StoredTimes,
      ti \in { <<"a">>, <<"b">> },
      tg \in { <<>>, <<<<"x">>>>, <<<<"x">>, <<"y">>>>, <<<<"x">>, <<"x">>>> } }
StoredLists ==
  UNION { [ 1..n -> StoredSessions ] : n \in 0..MaxStored }
\* the running records found under the running key
StoredRunning ==
  { [ isRunning |-> FALSE, startMs |-> Null, title |-> EmptyStr ],
    [ isRunning |-> TRUE, startMs |-> Some(MountTime - 1), title |-> <<"a">> ] }

InitLoaded ==
  /\ \E l \in StoredLists, r \in StoredRunning :
       mount([ EmptyStorage EXCEPT !.sessions = l, !.running = r ])
  /\ NoCall

\* stored lists with sessions of length zero and of negative length, at the
\* ends of the week of the mount, inside of it and outside
CorruptTimes ==
  { startOfWeek(MountTime) - 1, startOfWeek(MountTime), MountTime - 1,
    endOfWeek(MountTime), endOfWeek(MountTime) + 1 }
CorruptSessions ==
  { [ id |-> RunId(t[1], t[2]), title |-> ti, startMs |-> t[1],
      endMs |-> t[2], tags |-> tg ] :
      t \in CorruptTimes \X CorruptTimes,
      ti \in { <<"a">>, <<"b">> },
      tg \in { <<>>, <<<<"x">>>> } }
CorruptLists ==
  UNION { [ 1..n -> CorruptSessions ] : n \in 0..MaxStored }

InitCorrupt ==
  /\ \E l \in CorruptLists :
       mount([ EmptyStorage EXCEPT !.sessions = l ])
  /\ NoCall

\* the stored lists of one task
ExportStoredLists ==
  UNION { [ 1..n -> { s \in StoredSessions : s.title = <<"a">> } ] :
            n \in 0..MaxStored }

InitExport ==
  /\ \E l \in ExportStoredLists :
       mount([ EmptyStorage EXCEPT !.sessions = l ])
  /\ NoCall

(* ------------------------------ behaviour ------------------------------ *)
\* the page: the timer, the Pomodoro cycle, the entry modal and the week list
Next ==
  \/ handleStart
  \/ handlePause
  \/ pomodoroTicker
  \/ tick
  \/ \E v \in {<<"a">>} : setTaskTitle(v)
  \/ setPomodoroEnabled
  \/ openEntry
  \/ \E i \in 1..Len(weekSessionsSorted) : openEdit(i)
  \/ cancelEntry
  \/ \E i \in 1..Len(weekSessionsSorted) : deleteSession(i)
  \/ \E f \in EntryForms, r \in 1..NumRand : saveEntry(f, r)

Spec == Init /\ [][Next]_vars

\* the timer section: the inputs, the Start/Pause button and the Pomodoro
\* cycle
NextTimer ==
  \/ handleStart
  \/ handlePause
  \/ pomodoroTicker
  \/ tick
  \/ \E v \in TitleInputs : setTaskTitle(v)
  \/ \E v \in TagInputs : setCurrentTagsInput(v)
  \/ setPomodoroEnabled
  \/ setPomodoroAutoContinue

SpecTimer == Init /\ [][NextTimer]_vars

\* the week list and the totals over whatever localStorage held
NextLoaded ==
  \/ tick
  \/ previousWeek
  \/ todayWeek
  \/ nextWeek

SpecLoaded == InitLoaded /\ [][NextLoaded]_vars

\* clampToRangeOverlap called on every pair of intervals
NextOverlap == callOverlap

SpecOverlap == InitOverlap /\ [][NextOverlap]_vars

\* the export modal over the displayed week
NextExport ==
  \/ previousWeek
  \/ todayWeek
  \/ nextWeek
  \/ \E f \in ExportForms : handleExportFiltered(f)

SpecExport == InitExport /\ [][NextExport]_vars

(* --------------------- the load of stored contents --------------------- *)
\* what localStorage.getItem and JSON.parse make of a key: no item (or the
\* empty string), a text JSON.parse throws on, or a parsed value
Missing == <<"missing", <<>>>>
Unparseable == <<"unparseable", <<>>>>
JsonNull == <<"null", <<>>>>
\* a parsed value that is neither null nor an array nor an object
JsonNumber == <<"number", <<>>>>
\* an array whose elements are no sessions, as the state holds it
Junk == <<"junk">>
JsonJunkArray == <<"junkArray", Junk>>
JsonArray(list) == <<"array", list>>
JsonObject(fields) == <<"object", fields>>

kind(raw) == raw[1]
parsed(raw) == raw[2]

StoredSession ==
  [ id |-> RunId(MountTime - 2, MountTime - 1), title |-> <<"a">>,
    startMs |-> MountTime - 2, endMs |-> MountTime - 1, tags |-> <<>> ]

RawSessions ==
  { Missing, Unparseable, JsonNull, JsonNumber, JsonJunkArray,
    JsonArray(<<>>), JsonArray(<<StoredSession>>) }

RawRunning ==
  { Missing, Unparseable, JsonNull,
    JsonObject([ isRunning |-> TRUE, startMs |-> Some(MountTime - 1), title |-> <<"a">> ]),
    JsonObject([ isRunning |-> TRUE, startMs |-> Null, title |-> <<"a">> ]),
    JsonObject([ isRunning |-> FALSE, startMs |-> Some(MountTime - 1),
                 title |-> <<"a">> ]),
    JsonObject([ isRunning |-> FALSE, startMs |-> Null, title |-> EmptyStr ]) }

RawTagColors ==
  { Missing, Unparseable, JsonNumber, JsonObject(<<"x">>) }

\* a field of the settings object that is absent or of another type is Null
RawPomodoro ==
  { Missing, Unparseable, JsonNull,
    JsonObject([ enabled |-> Some(TRUE), focus |-> Some(MaxPomoMin),
                 break |-> Some(MaxPomoMin), auto |-> Some(FALSE) ]),
    JsonObject([ enabled |-> Null, focus |-> Null,
                 break |-> Some(MaxPomoMin), auto |-> Null ]) }

\* the useState defaults
DefaultState ==
  [ sessions |-> <<>>, isRunning |-> FALSE, runningStartMs |-> Null,
    runningTitle |-> EmptyStr, taskTitle |-> EmptyStr, tagColors |-> <<>>,
    pomodoroEnabled |-> FALSE, pomodoroFocusMin |-> DefaultFocusMin,
    pomodoroBreakMin |-> DefaultBreakMin, pomodoroAutoContinue |-> TRUE ]

\* if (raw) { const parsed = JSON.parse(raw); if (Array.isArray(parsed)) setSessions(parsed) }
loadSessions(raw, st) ==
  IF kind(raw) \in {"array", "junkArray"}
    THEN [ st EXCEPT !.sessions = parsed(raw) ]
    ELSE st

\* a load that restores the record without testing the type of startMs
loadRunningUnchecked(raw, st) ==
  IF kind(raw) = "object" /\ parsed(raw).isRunning
    THEN [ st EXCEPT !.isRunning = TRUE,
                     !.runningStartMs = parsed(raw).startMs,
                     !.runningTitle = parsed(raw).title,
                     !.taskTitle = parsed(raw).title ]
    ELSE st

\* if (running && running.isRunning && typeof running.startMs === "number")
loadRunning(raw, st) ==
  IF kind(raw) = "object" /\ parsed(raw).isRunning /\ parsed(raw).startMs # Null
    THEN [ st EXCEPT !.isRunning = TRUE,
                     !.runningStartMs = parsed(raw).startMs,
                     !.runningTitle = parsed(raw).title,
                     !.taskTitle = parsed(raw).title ]
    ELSE st

\* try { const parsed = JSON.parse(tagsRaw); if (parsed && typeof parsed === "object") ... } catch {}
loadTagColors(raw, st) ==
  IF kind(raw) = "object" THEN [ st EXCEPT !.tagColors = parsed(raw) ] ELSE st

\* try { const p = JSON.parse(pomoRaw); if (p) { if (typeof p.enabled === "boolean") ... } } catch {}
loadPomodoro(raw, st) ==
  IF kind(raw) # "object" THEN st
  ELSE LET p == parsed(raw) IN
       [ st EXCEPT
           !.pomodoroEnabled = IF p.enabled # Null THEN Val(p.enabled) ELSE @,
           !.pomodoroFocusMin = IF p.focus # Null THEN Val(p.focus) ELSE @,
           !.pomodoroBreakMin = IF p.break # Null THEN Val(p.break) ELSE @,
           !.pomodoroAutoContinue = IF p.auto # Null THEN Val(p.auto) ELSE @ ]

\* the load effect of the timer page: a throw of the first or the second
\* JSON.parse leaves the rest of the effect undone
loadEffect(raw) ==
  IF kind(raw.sessions) = "unparseable"
    THEN [ error |-> FALSE, state |-> DefaultState ]
  ELSE IF kind(raw.running) = "unparseable"
    THEN [ error |-> FALSE, state |-> loadSessions(raw.sessions, DefaultState) ]
  ELSE [ error |-> FALSE,
         state |-> loadPomodoro(raw.pomodoro,
                     loadTagColors(raw.tagColors,
                       loadRunning(raw.running,
                         loadSessions(raw.sessions, DefaultState)))) ]

\* the load effect of the report page:
\* if (savedSessions) setSessions(JSON.parse(savedSessions)), outside any try
reportLoadEffect(raw) ==
  IF kind(raw.sessions) = "missing"
    THEN [ error |-> FALSE, state |-> [ sessions |-> <<>> ] ]
  ELSE IF kind(raw.sessions) = "unparseable"
    THEN [ error |-> TRUE, state |-> [ sessions |-> <<>> ] ]
  ELSE IF kind(raw.sessions) = "array"
    THEN [ error |-> FALSE, state |-> [ sessions |-> parsed(raw.sessions) ] ]
  ELSE [ error |-> FALSE, state |-> [ sessions |-> Junk ] ]

\* the mount of the timer page over the stored contents args[1]
callLoad ==
  /\ args # Null /\ result = Null
  /\ result' = <<"timer", loadEffect(args[1])>>
  /\ UNCHANGED <<pageVars, args>>

\* the mount of the report page over the stored contents args[1]
callReportLoad ==
  /\ args # Null /\ result = Null
  /\ result' = <<"report", reportLoadEffect(args[1])>>
  /\ UNCHANGED <<pageVars, args>>

InitLoad ==
  /\ mount(EmptyStorage)
  /\ \E s \in RawSessions, r \in RawRunning, t \in RawTagColors, p \in RawPomodoro :
       args = <<[ sessions |-> s, running |-> r, tagColors |-> t, pomodoro |-> p ]>>
  /\ result = Null

\* both pages mounted over every stored content
NextLoad ==
  \/ callLoad
  \/ callReportLoad

SpecLoad == InitLoad /\ [][NextLoad]_vars

(* ------------------------------- reload -------------------------------- *)
\* JSON.stringify of the stored values, as the load effect's JSON.parse
\* sees them
rawOf(st) ==
  [ sessions |-> JsonArray(st.sessions),
    running |-> JsonObject(st.running),
    tagColors |-> JsonObject(<<>>),
    pomodoro |-> JsonObject([ enabled |-> Some(st.pomodoro.enabled),
                              focus |-> Some(st.pomodoro.focus),
                              break |-> Some(st.pomodoro.break),
                              auto |-> Some(st.pomodoro.auto) ]) ]

\* what the persist effects write on their first run, with the useState
\* defaults
persistedDefaults ==
  persisted(DefaultState.sessions, DefaultState.isRunning,
            DefaultState.runningStartMs, DefaultState.runningTitle,
            DefaultState.taskTitle, DefaultState.pomodoroEnabled,
            DefaultState.pomodoroFocusMin, DefaultState.pomodoroBreakMin,
            DefaultState.pomodoroAutoContinue)

\* a load effect that runs after the persist effects
storedAfterFirstPersist == persistedDefaults

\* what the load effect reads: it is declared before the persist effects and
\* runs before their first run
storedAtLoad == storage

\* the persist effects' second run: an effect whose dependencies the load
\* changed writes the loaded state, the others leave the first write
persistedAfterLoad(l) ==
  LET second == persisted(l.sessions, l.isRunning, l.runningStartMs,
                          l.runningTitle, l.taskTitle, l.pomodoroEnabled,
                          l.pomodoroFocusMin, l.pomodoroBreakMin,
                          l.pomodoroAutoContinue)
  IN  [ sessions |-> IF l.sessions # DefaultState.sessions
                       THEN second.sessions ELSE persistedDefaults.sessions,
        running |-> IF <<l.isRunning, l.runningStartMs, l.runningTitle, l.taskTitle>>
                       # <<DefaultState.isRunning, DefaultState.runningStartMs,
                           DefaultState.runningTitle, DefaultState.taskTitle>>
                      THEN second.running ELSE persistedDefaults.running,
        pomodoro |-> IF <<l.pomodoroEnabled, l.pomodoroFocusMin,
                          l.pomodoroBreakMin, l.pomodoroAutoContinue>>
                        # <<DefaultState.pomodoroEnabled, DefaultState.pomodoroFocusMin,
                            DefaultState.pomodoroBreakMin, DefaultState.pomodoroAutoContinue>>
                       THEN second.pomodoro ELSE persistedDefaults.pomodoro ]

\* the page is loaded again: useState defaults, load effect, persist effects
reload ==
  LET l == loadEffect(rawOf(storedAtLoad)).state IN
  /\ lastOp' = "reload"
  /\ alert' = NoAlert
  /\ now' = now
  /\ taskTitle' = l.taskTitle
  /\ currentTagsInput' = EmptyStr
  /\ isRunning' = l.isRunning
  /\ runningStartMs' = l.runningStartMs
  /\ runningTitle' = l.runningTitle
  /\ sessions' = l.sessions
  /\ showEntryModal' = FALSE
  /\ editingSession' = Null
  /\ selectedWeekOffset' = 0
  /\ todayStart' = startOfDay(now)
  /\ todayEnd' = endOfDay(now)
  /\ weekStart' = startOfWeek(now)
  /\ weekEnd' = endOfWeek(now)
  /\ pomodoroEnabled' = l.pomodoroEnabled
  /\ pomodoroFocusMin' = l.pomodoroFocusMin
  /\ pomodoroBreakMin' = l.pomodoroBreakMin
  /\ pomodoroAutoContinue' = l.pomodoroAutoContinue
  /\ pomodoroPhase' = "idle"
  /\ pomodoroEndMs' = Null
  /\ storage' = persistedAfterLoad(l)
  /\ UNCHANGED callVars

\* the timer, the entry modal and reloads of the page
NextReload ==
  \/ handleStart
  \/ handlePause
  \/ tick
  \/ \E v \in {<<"a">>, <<" ">>} : setTaskTitle(v)
  \/ setPomodoroEnabled
  \/ openEntry
  \/ \E i \in 1..Len(weekSessionsSorted) : deleteSession(i)
  \/ \E f \in EntryForms, r \in 1..NumRand : saveEntry(f, r)
  \/ reload

SpecReload == Init /\ [][NextReload]_vars

\* the week list and the totals over corrupted stored sessions
NextCorrupt ==
  \/ tick
  \/ previousWeek
  \/ todayWeek
  \/ nextWeek

SpecCorrupt == InitCorrupt /\ [][NextCorrupt]_vars

\* the week bounds of both pages called on every anchor
NextWeek ==
  \/ callWeekBounds
  \/ callReportWeekBounds

SpecWeek == InitWeek /\ [][NextWeek]_vars

(* ======================= properties of the timer ======================= *)
Sessions == { sessions[i] : i \in 1..Len(sessions) }
runningSlotEmpty(running, startMs, title) ==
  ~running /\ startMs = Null /\ title = EmptyStr

\* C1: a pause (of the button, or the automatic one of the Pomodoro ticker)
\* of a timer running since T0 adds exactly one session, in front, with
\* startMs = T0 and endMs = the clock reading T1 of the pause (the clock at
\* the click for the button), empties the running slot, and keeps every
\* earlier session as it was.
C1_PauseAddsOneSession ==
  [][ (isRunning /\ ~isRunning') =>
        /\ Len(sessions') = Len(sessions) + 1
        /\ sessions'[1].startMs = Val(runningStartMs)
        /\ sessions'[1].endMs \in now..now'
        /\ (handlePause => sessions'[1].endMs = now)
        /\ runningSlotEmpty(isRunning', runningStartMs', runningTitle')
        /\ \A i \in 1..Len(sessions) : sessions'[i + 1] = sessions[i] ]_vars

\* a second session has just been recorded by the Pause button
C1_Witness ==
  /\ lastOp = "pause"
  /\ Len(sessions) = 2
  /\ sessions[1].startMs < sessions[1].endMs
  /\ runningSlotEmpty(isRunning, runningStartMs, runningTitle)

\* C2: while a timer runs, no step (a start request and the Pomodoro ticker
\* included) changes runningStartMs or runningTitle, except a pause, which
\* clears both and records the session.
C2_RunningTimerNotOverwritten ==
  [][ isRunning =>
        \/ UNCHANGED <<isRunning, runningStartMs, runningTitle>>
        \/ /\ runningSlotEmpty(isRunning', runningStartMs', runningTitle')
           /\ Len(sessions') = Len(sessions) + 1
           /\ sessions'[1].startMs = Val(runningStartMs) ]_vars

\* a start request was made while a timer ran under another title than the
\* one in the input, and the timer is as it was
C2_Witness ==
  /\ lastOp = "startIgnored"
  /\ isRunning
  /\ runningStartMs # Null /\ Val(runningStartMs) < now
  /\ Trim(taskTitle) # EmptyStr /\ Trim(taskTitle) # runningTitle

\* C3: a start request while no timer runs and the title input is empty or
\* blank starts nothing: isRunning stays false and runningStartMs,
\* runningTitle, the sessions, the Pomodoro phase and pomodoroEndMs keep
\* their values.
C3_BlankTitleStartRejected ==
  [][ (handleStart /\ ~isRunning /\ Trim(taskTitle) = EmptyStr) =>
        /\ ~isRunning'
        /\ alert' = TitleAlert
        /\ UNCHANGED <<runningStartMs, runningTitle, sessions, pomodoroPhase,
                       pomodoroEndMs>> ]_vars

\* a start with a whitespace-only title was rejected during a break
C3_Witness ==
  /\ lastOp = "startRejected"
  /\ alert = TitleAlert
  /\ taskTitle = <<" ">>
  /\ ~isRunning
  /\ pomodoroPhase = "break"

(* ===================== properties of the entry form ==================== *)
\* the instant the form's date and one of its times name
formInstant(date, time) == Val(date) * DayLen + Val(time) * MsPerMin

formIncomplete(f) == f.date = Null \/ f.startTime = Null \/ f.endTime = Null

\* a form that must be rejected at the clock reading t
formInvalid(f, t) ==
  \/ formIncomplete(f)
  \/ formInstant(f.date, f.endTime) <= formInstant(f.date, f.startTime)
  \/ formInstant(f.date, f.endTime) > t

\* C4: a save of the entry form (of a new entry or of an edit) whose date or
\* a time is missing, whose end is not after its start, or whose end is
\* later than the clock, raises an alert and leaves the session collection
\* exactly as it was.
C4_InvalidEntryRejected ==
  [][ (/\ showEntryModal
       /\ \E f \in EntryForms, r \in 1..NumRand :
            formInvalid(f, now) /\ saveEntry(f, r)) =>
        /\ sessions' = sessions
        /\ alert' \in {RangeAlert, FutureAlert} ]_vars

\* the edit of a recorded session was rejected because its end lies in the
\* future
C4_Witness ==
  /\ lastOp = "saveRejected"
  /\ alert = FutureAlert
  /\ editingSession # Null
  /\ Val(editingSession) \in Sessions
  /\ showEntryModal

\* C5 (as claimed): every recorded session has endMs > startMs.
C5_EndAfterStart ==
  \A i \in 1..Len(sessions) : sessions[i].endMs > sessions[i].startMs

(* ======================== properties of the totals ===================== *)
\* the sessions (by position) that selectInRange selects for a window
selectedIdx(start, end) ==
  { i \in 1..Len(sessions) :
      Max(sessions[i].startMs, start) <= Min(sessions[i].endMs, end) }

overlapDuration(s, start, end) ==
  clampToRangeOverlap(s.startMs, s.endMs, start, end)

RECURSIVE sumOverlap(_, _, _)
sumOverlap(I, start, end) ==
  IF I = {} THEN 0
  ELSE LET i == CHOOSE x \in I : TRUE
       IN  overlapDuration(sessions[i], start, end)
           + sumOverlap(I \ {i}, start, end)

\* the overlap of the provisional interval [runningStartMs, now] with a window
provisional(start, end) ==
  IF isRunning THEN clampToRangeOverlap(Val(runningStartMs), now, start, end)
  ELSE 0

\* C6: the day total and the week total are the sum of overlapDuration over
\* the sessions selectInRange selects for the window, plus the overlap of
\* [runningStartMs, now] with the window exactly when a timer runs; the
\* running timer is no session of the collection.
C6_TotalsAreSums ==
  /\ todayTotalMs =
       sumOverlap(selectedIdx(todayStart, todayEnd), todayStart, todayEnd)
       + provisional(todayStart, todayEnd)
  /\ weekTotalMs =
       sumOverlap(selectedIdx(weekStart, weekEnd), weekStart, weekEnd)
       + provisional(weekStart, weekEnd)
  /\ isRunning =>
       \A i \in 1..Len(sessions) :
         ~(sessions[i].startMs = Val(runningStartMs) /\ sessions[i].endMs = now)

\* a timer runs and adds to the week total, next to a session that counts in
\* the week and one that the window leaves out
C6_Witness ==
  /\ isRunning
  /\ provisional(weekStart, weekEnd) > 0
  /\ selectedIdx(weekStart, weekEnd) # {}
  /\ selectedIdx(weekStart, weekEnd) # 1..Len(sessions)
  /\ weekTotalMs > provisional(weekStart, weekEnd)
  /\ todayTotalMs < weekTotalMs

\* C7: clampToRangeOverlap never returns a negative value, whatever the
\* order of the ends of the session and of the window.
C7_OverlapNonNegative == result # Null => Val(result) >= 0

\* the function returned 0 for a session and a window that both end before
\* they start
C7_Witness ==
  /\ result = Some(0)
  /\ args[2] < args[1]
  /\ args[4] < args[3]

\* the instants t such that [t, t + 1] lies in both intervals
commonUnits(a, b, c, d) ==
  { t \in 0..MaxCoord : a <= t /\ t + 1 <= b /\ c <= t /\ t + 1 <= d }

\* C8: for a session [a, b] with a <= b and a window [c, d] with c <= d the
\* function returns the length of the intersection: b - a for a session
\* inside the window, 0 for a session outside of it.
C8_OverlapIsIntersection ==
  (result # Null /\ args[1] <= args[2] /\ args[3] <= args[4]) =>
    LET a == args[1]  b == args[2]  c == args[3]  d == args[4] IN
    /\ Val(result) = Cardinality(commonUnits(a, b, c, d))
    /\ (c <= a /\ b <= d) => Val(result) = b - a
    /\ (b <= c \/ d <= a) => Val(result) = 0

\* the function returned the length of a session that lies inside the window
C8_Witness ==
  /\ result # Null
  /\ args[3] < args[1] /\ args[1] < args[2] /\ args[2] < args[4]
  /\ Val(result) = args[2] - args[1]

inSeq(s, list) == \E j \in 1..Len(list) : list[j] = s

\* a session with startMs <= endMs that ends at the start of the week window
\* or starts at its end
touchesWeek(s) ==
  /\ s.startMs <= s.endMs
  /\ s.endMs = weekStart \/ s.startMs = weekEnd

\* C9: a session is in the week list exactly when
\* max(startMs, weekStart) <= min(endMs, weekEnd); so a session (with
\* startMs <= endMs) that ends exactly at weekStart or starts exactly at
\* weekEnd is in the list and is a key of the per-task totals, with overlap 0.
C9_SelectionIncludesBoundary ==
  /\ \A i \in 1..Len(sessions) :
       inSeq(sessions[i], weekSessionsSorted)
         <=> i \in selectedIdx(weekStart, weekEnd)
  /\ Len(weekSessionsSorted) = Cardinality(selectedIdx(weekStart, weekEnd))
  /\ \A i \in 1..Len(sessions) :
       touchesWeek(sessions[i]) =>
         /\ inSeq(sessions[i], weekSessionsSorted)
         /\ sessions[i].title \in DOMAIN perTaskWeekTotals
         /\ overlapDuration(sessions[i], weekStart, weekEnd) = 0

\* the week list shows a session that ends at weekStart and one that starts
\* at weekEnd, and the totals of their tasks are 0
C9_Witness ==
  /\ Len(sessions) = 2
  /\ sessions[1].startMs < sessions[1].endMs /\ sessions[1].endMs = weekStart
  /\ sessions[2].startMs = weekEnd /\ sessions[2].startMs < sessions[2].endMs
  /\ Len(weekSessionsSorted) = 2
  /\ \A k \in DOMAIN perTaskWeekTotals : perTaskWeekTotals[k] = 0

tagsOf(s) == { s.tags[k] : k \in 1..Len(s.tags) }
occurrences(tag, s) == Cardinality({ k \in 1..Len(s.tags) : s.tags[k] = tag })

RECURSIVE sumTag(_, _)
sumTag(I, tag) ==
  IF I = {} THEN 0
  ELSE LET i == CHOOSE x \in I : TRUE
       IN  overlapDuration(sessions[i], weekStart, weekEnd)
             * occurrences(tag, sessions[i])
           + sumTag(I \ {i}, tag)

\* C10: the per-tag week totals have one key per tag of the sessions
\* selected for the week, and the total of a tag is the sum over these
\* sessions of the overlap times the number of occurrences of the tag in the
\* session's tag list.
C10_TagTotalsCountOccurrences ==
  LET I == selectedIdx(weekStart, weekEnd) IN
  /\ DOMAIN perTagWeekTotals = UNION { tagsOf(sessions[i]) : i \in I }
  /\ \A tag \in DOMAIN perTagWeekTotals :
       perTagWeekTotals[tag] = sumTag(I, tag)

\* a session tagged x twice and a session tagged x and y, both with a
\* positive overlap: x has twice the first plus the second, y the second
C10_Witness ==
  /\ Len(sessions) = 2
  /\ sessions[1].tags = <<<<"x">>, <<"x">>>>
  /\ sessions[2].tags = <<<<"x">>, <<"y">>>>
  /\ overlapDuration(sessions[1], weekStart, weekEnd) > 0
  /\ overlapDuration(sessions[2], weekStart, weekEnd) > 0
  /\ perTagWeekTotals[<<"x">>] =
       2 * overlapDuration(sessions[1], weekStart, weekEnd)
       + overlapDuration(sessions[2], weekStart, weekEnd)
  /\ perTagWeekTotals[<<"y">>] = overlapDuration(sessions[2], weekStart, weekEnd)

(* ================== properties of the per-tag totals =================== *)
RECURSIVE sumMap(_, _)
sumMap(map, keys) ==
  IF keys = {} THEN 0
  ELSE LET k == CHOOSE x \in keys : TRUE
       IN  map[k] + sumMap(map, keys \ {k})

\* the sum of the per-tag week totals
sumTagTotals == sumMap(perTagWeekTotals, DOMAIN perTagWeekTotals)

\* the week total of the completed sessions
completedWeekTotal == durations(weekSessions, weekStart, weekEnd)

\* C11: the per-tag week totals do not partition the week total. When every
\* session selected for the week has a tag and one of them has two tags or
\* more and a positive overlap, their sum is greater than the week total of
\* the completed sessions; when no session has more than one tag and no timer
\* runs, their sum is at most the week total.
C11_TagTotalsNoPartition ==
  LET I == selectedIdx(weekStart, weekEnd) IN
  /\ ( /\ \A i \in I : Len(sessions[i].tags) >= 1
       /\ \E i \in I : /\ Len(sessions[i].tags) >= 2
                       /\ overlapDuration(sessions[i], weekStart, weekEnd) > 0 )
       => sumTagTotals > completedWeekTotal
  /\ ( /\ ~isRunning
       /\ \A i \in 1..Len(sessions) : Len(sessions[i].tags) <= 1 )
       => sumTagTotals <= weekTotalMs

\* a session tagged x and y overlaps the week, next to one tagged x that
\* overlaps it too, and the tag totals add up to more than the week total
C11_Witness ==
  /\ Len(sessions) = 2
  /\ sessions[1].tags = <<<<"x">>, <<"y">>>>
  /\ sessions[2].tags = <<<<"x">>>>
  /\ overlapDuration(sessions[1], weekStart, weekEnd) > 0
  /\ overlapDuration(sessions[2], weekStart, weekEnd) > 0
  /\ ~isRunning
  /\ sumTagTotals > completedWeekTotal
  /\ completedWeekTotal = weekTotalMs

(* ===================== properties of the week bounds =================== *)
\* the instant 00:00:00.000 of the Monday of the week of t
mondayMidnight(t) ==
  CHOOSE m \in (t - WeekLen + 1)..t : m % DayLen = 0 /\ getDay(m) = 1

\* the last instant of the Sunday six days after the Monday m
sundayLastInstant(m) == m + 6 * DayLen + (DayLen - 1)

weekBoundsCorrect ==
  /\ result[2] = mondayMidnight(args[1])
  /\ result[3] = sundayLastInstant(result[2])
  /\ getDay(args[1]) = 1 => startOfDay(result[2]) = startOfDay(args[1])
  /\ getDay(args[1]) = 0 =>
       startOfDay(result[2]) = startOfDay(args[1]) - 6 * DayLen

\* C12: for every anchor the week bounds are 00:00:00.000 of the Monday of
\* the anchor's week and 23:59:59.999 of the Sunday six days later, on the
\* timer page and on the report page.
C12_WeekBounds ==
  (result # Null /\ Len(result) = 3) => weekBoundsCorrect

\* the same statement for the timer page alone
C12_TimerPageWeekBounds ==
  (result # Null /\ Len(result) = 3 /\ result[1] = "timer") => weekBoundsCorrect

\* the timer page's bounds for a Sunday anchor in the middle of the day
C12_TimerPageWitness ==
  /\ result # Null /\ Len(result) = 3 /\ result[1] = "timer"
  /\ getDay(args[1]) = 0 /\ args[1] # startOfDay(args[1])
  /\ result[3] = endOfDay(args[1])

(* ======================= properties of the export ====================== *)
\* the sessions selectInRange selects for the window from the first instant
\* of the start date to the last instant of the end date
exportWindowSelection(exportForm) ==
  sessionsInRange(sessions, startOfDay(Val(exportForm.startDate) * DayLen),
                  endOfDay(Val(exportForm.endDate) * DayLen))

\* C18: with an empty tags filter the exported sessions are the sessions
\* selectInRange selects for the window [00:00:00.000 of the start date,
\* 23:59:59.999 of the end date]; with the default export form of the
\* displayed week they are the sessions of the week list.
C18_ExportIsSelection ==
  (result # Null /\ args[1].tagsCsv = EmptyStr) =>
    /\ Val(result) = exportWindowSelection(args[1])
    /\ args[1] = defaultExportForm =>
         sortByStartDesc(Val(result)) = weekSessionsSorted

\* the statement with the window ending at 23:59:00.000 of the end date
C18_ExportToLastMinute ==
  (result # Null /\ args[1].tagsCsv = EmptyStr) =>
    Val(result) =
      sessionsInRange(sessions, startOfDay(Val(args[1].startDate) * DayLen),
                      startOfDay(Val(args[1].endDate) * DayLen)
                        + LastMinute * MsPerMin)

\* an export of the displayed week with the default form that wrote a session
C18_ExportWitness ==
  /\ result # Null /\ args[1] = defaultExportForm
  /\ Len(Val(result)) = 1 /\ Len(sessions) = 2

(* ================= properties of the session collection ================ *)
addsOneAtFront ==
  /\ Len(sessions') = Len(sessions) + 1
  /\ Tail(sessions') = sessions

\* the length and the order stay; only the session with the edited id changes,
\* and it keeps its id
replacesEdited ==
  /\ editingSession # Null
  /\ Len(sessions') = Len(sessions)
  /\ \A i \in 1..Len(sessions) :
       IF sessions[i].id = Val(editingSession).id
         THEN sessions'[i].id = sessions[i].id
         ELSE sessions'[i] = sessions[i]

withoutId(list, id) == SelectSeq(list, LAMBDA s : s.id # id)

removesDeleted ==
  \E i \in 1..Len(sessions) :
    /\ sessions' = withoutId(sessions, sessions[i].id)
    /\ Len(sessions') < Len(sessions)

\* C13: the collection changes only by a pause or an auto-pause or a valid
\* manual save (one session more, at the front), a valid edit (same length
\* and order, only the edited session differs) or a delete (the sessions with
\* the deleted id are gone); every other step leaves it unchanged.
C13_CollectionChangesByFourOps ==
  [][ /\ tick => sessions' = sessions
      /\ ~tick =>
           CASE lastOp' \in {"pause", "autoPause", "saveCreated"} -> addsOneAtFront
             [] lastOp' = "saveEdited" -> replacesEdited
             [] lastOp' = "delete" -> removesDeleted
             [] OTHER -> sessions' = sessions ]_vars

\* a valid edit of the second session of the list, a session the timer
\* recorded: it keeps its id and its place and has the fields of the form
C13_Witness ==
  /\ lastOp = "saveEdited"
  /\ Len(sessions) = 2
  /\ sessions[2].id[1] = "run"
  /\ sessions[2].title = <<"c">>
  /\ sessions[1].title # <<"c">>

\* the same for the steps of the specifications of the timer section and of
\* the export: week navigation, input edits, settings and exports leave the
\* collection unchanged
C13_ViewStepsKeepCollection ==
  [][ (lastOp' = "other" \/ args' # args) => sessions' = sessions ]_vars

(* ======================= properties of the ids ========================= *)
\* C14: no two sessions of the collection have the same id.
C14_IdsUnique ==
  \A i, j \in 1..Len(sessions) : i # j => sessions[i].id # sessions[j].id

\* the same for the sessions the timer recorded with endMs > startMs
C14_TimedRunIdsUnique ==
  \A i, j \in 1..Len(sessions) :
    ( /\ i # j
      /\ sessions[i].id[1] = "run" /\ sessions[j].id[1] = "run"
      /\ sessions[i].id[3] > sessions[i].id[2] ) =>
      sessions[i].id # sessions[j].id

\* a delete removes one session
C14_DeleteRemovesOne ==
  [][ lastOp' = "delete" => Len(sessions') >= Len(sessions) - 1 ]_vars

(* ======================= properties of the titles ====================== *)
blank(title) == Trim(title) = EmptyStr

C15_SaveWitness ==
  /\ lastOp = "saveCreated"
  /\ sessions[1].title = UntitledTask

(* ======================== properties of the load ======================= *)
\* the running record is an object with isRunning set and a number as startMs
usableRunning(raw) ==
  kind(raw) = "object" /\ parsed(raw).isRunning /\ parsed(raw).startMs # Null

\* the pieces of the timer page's state whose stored value is unusable are
\* at their defaults
timerDefaultsKept(raw, st) ==
  /\ ~usableRunning(raw.running) =>
       /\ st.isRunning = DefaultState.isRunning
       /\ st.runningStartMs = DefaultState.runningStartMs
       /\ st.runningTitle = DefaultState.runningTitle
  /\ kind(raw.tagColors) # "object" => st.tagColors = DefaultState.tagColors
  /\ (kind(raw.pomodoro) # "object" \/ parsed(raw.pomodoro).enabled = Null) =>
       st.pomodoroEnabled = DefaultState.pomodoroEnabled
  /\ (kind(raw.pomodoro) # "object" \/ parsed(raw.pomodoro).focus = Null) =>
       st.pomodoroFocusMin = DefaultState.pomodoroFocusMin
  /\ (kind(raw.pomodoro) # "object" \/ parsed(raw.pomodoro).break = Null) =>
       st.pomodoroBreakMin = DefaultState.pomodoroBreakMin
  /\ (kind(raw.pomodoro) # "object" \/ parsed(raw.pomodoro).auto = Null) =>
       st.pomodoroAutoContinue = DefaultState.pomodoroAutoContinue

\* C16: for every stored content the load ends without an error, and a piece
\* of state whose stored value is missing, unparseable or of the wrong shape
\* is at its empty default, on the timer page and on the report page.
C16_LoadNeverFails ==
  result # Null =>
    LET raw == args[1]  r == result[2] IN
    /\ ~r.error
    /\ kind(raw.sessions) # "array" => r.state.sessions = <<>>
    /\ result[1] = "timer" => timerDefaultsKept(raw, r.state)

\* the statement for the timer page, an array counting as usable whatever
\* its elements are
C16_TimerPageLoadCatches ==
  (result # Null /\ result[1] = "timer") =>
    LET raw == args[1]  r == result[2] IN
    /\ ~r.error
    /\ kind(raw.sessions) \notin {"array", "junkArray"} => r.state.sessions = <<>>
    /\ timerDefaultsKept(raw, r.state)

\* the statement for the report page and a stored value that is missing or
\* an array of sessions
C16_ReportLoadOfArrays ==
  (result # Null /\ result[1] = "report"
     /\ kind(args[1].sessions) \in {"missing", "array"}) =>
    /\ ~result[2].error
    /\ result[2].state.sessions =
         IF kind(args[1].sessions) = "array" THEN parsed(args[1].sessions) ELSE <<>>

\* the timer page loaded its sessions although the running record was
\* unparseable
C16_TimerPageWitness ==
  /\ result # Null /\ result[1] = "timer"
  /\ kind(args[1].running) = "unparseable"
  /\ result[2].state.sessions = <<StoredSession>>
  /\ ~result[2].state.isRunning

(* ======================= properties of the reload ====================== *)
\* C17: a reload ends with the session list in memory and in localStorage
\* equal to the list before the reload, and with the running timer restored
\* with the same isRunning, startMs and title.
C17_ReloadPreservesData ==
  [][ reload =>
        /\ sessions' = sessions
        /\ storage'.sessions = sessions
        /\ isRunning' = isRunning
        /\ runningStartMs' = runningStartMs
        /\ runningTitle' = runningTitle
        /\ storage'.running = storage.running ]_vars

\* the page was loaded again while a timer started earlier was running, with
\* two sessions recorded and the Pomodoro cycle switched on
C17_Witness ==
  /\ lastOp = "reload"
  /\ isRunning /\ Val(runningStartMs) < now /\ runningTitle = <<"a">>
  /\ Len(sessions) = 2
  /\ storage.sessions = sessions
  /\ storage.running.startMs = runningStartMs
  /\ pomodoroEnabled

(* ==================== more properties of the overlap =================== *)
\* C19: the overlap of [a, b] with the window [c, d] equals the overlap of
\* [c, d] with the window [a, b], for all a, b, c, d.
C19_OverlapSymmetric ==
  result # Null =>
    Val(result) = clampToRangeOverlap(args[3], args[4], args[1], args[2])

\* two intervals that overlap in part: the overlap is positive and smaller
\* than both
C19_Witness ==
  /\ result # Null
  /\ args[1] < args[3] /\ args[3] < args[2] /\ args[2] < args[4]
  /\ Val(result) = args[2] - args[3]
  /\ clampToRangeOverlap(args[3], args[4], args[1], args[2]) = args[2] - args[3]

(* ================== properties of degenerate sessions ================== *)
zeroLength(s) == s.startMs = s.endMs
negativeLength(s) == s.endMs < s.startMs

\* the list without its i-th session
withoutAt(list, i) == SubSeq(list, 1, i - 1) \o SubSeq(list, i + 1, Len(list))

\* the totals are what they are without the i-th session
contributesNothing(i) ==
  LET rest == withoutAt(sessions, i)
      restWeek == sessionsInRange(rest, weekStart, weekEnd)
      restTask == perTaskAcc(restWeek, EmptyMap)
      restTag == perTagAcc(restWeek, EmptyMap)
  IN
  /\ overlapDuration(sessions[i], weekStart, weekEnd) = 0
  /\ overlapDuration(sessions[i], todayStart, todayEnd) = 0
  /\ weekTotalMs = durations(restWeek, weekStart, weekEnd)
                     + runningTerm(weekStart, weekEnd)
  /\ todayTotalMs =
       durations(sessionsInRange(rest, todayStart, todayEnd), todayStart, todayEnd)
         + runningTerm(todayStart, todayEnd)
  /\ \A k \in DOMAIN perTaskWeekTotals :
       perTaskWeekTotals[k] = IF k \in DOMAIN restTask THEN restTask[k] ELSE 0
  /\ \A k \in DOMAIN perTagWeekTotals :
       perTagWeekTotals[k] = IF k \in DOMAIN restTag THEN restTag[k] ELSE 0

inWindow(t, start, end) == start <= t /\ t <= end

\* the session is in the week list and its title is a key of the per-task
\* totals
listedInWeek(i) ==
  /\ i \in selectedIdx(weekStart, weekEnd)
  /\ inSeq(sessions[i], weekSessionsSorted)
  /\ sessions[i].title \in DOMAIN perTaskWeekTotals

\* C20 as stated: a session of length zero or of negative length contributes
\* 0 to every total, and it is selected for the week, listed and a per-task
\* key whenever its timestamps lie within or at the boundary of the window.
C20_DegenerateCounted ==
  \A i \in 1..Len(sessions) :
    (zeroLength(sessions[i]) \/ negativeLength(sessions[i])) =>
      /\ contributesNothing(i)
      /\ ( /\ inWindow(sessions[i].startMs, weekStart, weekEnd)
           /\ inWindow(sessions[i].endMs, weekStart, weekEnd) ) => listedInWeek(i)

\* C20 amended: a session of length zero contributes 0 to every total and is
\* selected, listed and a per-task key exactly when its timestamp lies within
\* or at the boundary of the window; a session of negative length contributes
\* 0 to every total and is selected for no window, so it is in no list and
\* adds no key.
C20_DegenerateAmended ==
  \A i \in 1..Len(sessions) :
    /\ zeroLength(sessions[i]) =>
         /\ contributesNothing(i)
         /\ inWindow(sessions[i].startMs, weekStart, weekEnd) <=> listedInWeek(i)
         /\ inWindow(sessions[i].startMs, todayStart, todayEnd)
              <=> i \in selectedIdx(todayStart, todayEnd)
    /\ negativeLength(sessions[i]) =>
         /\ contributesNothing(i)
         /\ i \notin selectedIdx(weekStart, weekEnd)
         /\ i \notin selectedIdx(todayStart, todayEnd)
         /\ ~inSeq(sessions[i], weekSessionsSorted)

\* a session of length zero inside the week is listed under a key with 0 ms,
\* and a session of negative length with both ends in the week is not listed
C20_Witness ==
  /\ Len(sessions) = 2
  /\ zeroLength(sessions[1])
  /\ weekStart < sessions[1].startMs /\ sessions[1].startMs < weekEnd
  /\ negativeLength(sessions[2])
  /\ sessions[2].startMs = weekEnd /\ sessions[2].endMs = weekStart
  /\ sessions[2].title # sessions[1].title
  /\ Len(weekSessionsSorted) = 1
  /\ perTaskWeekTotals[sessions[1].title] = 0
  /\ sessions[2].title \notin DOMAIN perTaskWeekTotals

(* ------------------------- the Pomodoro cycle -------------------------- *)
\* the page after its mount over the raw stored contents: the useState
\* defaults, the load effect and the persist effects
mountLoaded(raw) ==
  LET l == loadEffect(raw).state IN
  /\ now = MountTime
  /\ taskTitle = l.taskTitle
  /\ currentTagsInput = EmptyStr
  /\ isRunning = l.isRunning
  /\ runningStartMs = l.runningStartMs
  /\ runningTitle = l.runningTitle
  /\ sessions = l.sessions
  /\ showEntryModal = FALSE
  /\ editingSession = Null
  /\ selectedWeekOffset = 0
  /\ todayStart = startOfDay(MountTime)
  /\ todayEnd = endOfDay(MountTime)
  /\ weekStart = startOfWeek(MountTime)
  /\ weekEnd = endOfWeek(MountTime)
  /\ pomodoroEnabled = l.pomodoroEnabled
  /\ pomodoroFocusMin = l.pomodoroFocusMin
  /\ pomodoroBreakMin = l.pomodoroBreakMin
  /\ pomodoroAutoContinue = l.pomodoroAutoContinue
  /\ pomodoroPhase = "idle"
  /\ pomodoroEndMs = Null
  /\ storage = persistedAfterLoad(l)
  /\ alert = NoAlert
  /\ lastOp = "mount"

\* the page mounted over every stored running record and every stored
\* Pomodoro settings object
InitCycle ==
  /\ \E r \in RawRunning, p \in RawPomodoro :
       mountLoaded([ sessions |-> Missing, running |-> r,
                     tagColors |-> Missing, pomodoro |-> p ])
  /\ NoCall

\* the values typed into the minute inputs
MinuteInputs == 0..MaxPomoMin

\* the timer and the Pomodoro section: Start/Pause, the ticker and every
\* setting
NextCycle ==
  \/ handleStart
  \/ handlePause
  \/ pomodoroTicker
  \/ tick
  \/ \E v \in {<<"a">>, <<" ">>} : setTaskTitle(v)
  \/ setPomodoroEnabled
  \/ setPomodoroAutoContinue
  \/ \E n \in MinuteInputs : setPomodoroFocusMin(n)
  \/ \E n \in MinuteInputs : setPomodoroBreakMin(n)

SpecCycle == InitCycle /\ [][NextCycle]_vars

(* ==================== properties of the Pomodoro cycle ================= *)
\* the length of a phase of m minutes on the clock
phaseLength(m) == m * MsPerMin

\* a clock reading between first and last, plus a phase of m minutes
endsAfterPhase(endMs, first, last, m) ==
  /\ endMs # Null
  /\ Val(endMs) - phaseLength(m) \in first..last

\* C21: with Pomodoro enabled, a start request that starts a timer enters the
\* focus phase with pomodoroEndMs = the clock reading of the start + the focus
\* minutes; a ticker run that finds the phase focus, a timer running and
\* now >= pomodoroEndMs pauses the timer: exactly one session
\* [runningStartMs, now] is added in front, the running slot is cleared and
\* the phase becomes break with pomodoroEndMs = the clock reading + the break
\* minutes; no automatic pause happens before pomodoroEndMs.
C21_FocusThenAutoPause ==
  [][ /\ (handleStart /\ pomodoroEnabled /\ lastOp' = "start") =>
           /\ isRunning' /\ runningStartMs' = Some(now)
           /\ pomodoroPhase' = "focus"
           /\ endsAfterPhase(pomodoroEndMs', now, now', pomodoroFocusMin)
      /\ ( /\ pomodoroTicker /\ pomodoroEnabled /\ pomodoroPhase = "focus"
           /\ isRunning /\ now >= Val(pomodoroEndMs) ) =>
           /\ lastOp' = "autoPause"
           /\ Len(sessions') = Len(sessions) + 1
           /\ Tail(sessions') = sessions
           /\ sessions'[1].startMs = Val(runningStartMs)
           /\ sessions'[1].endMs \in now..now'
           /\ runningSlotEmpty(isRunning', runningStartMs', runningTitle')
           /\ pomodoroPhase' = "break"
           /\ endsAfterPhase(pomodoroEndMs', sessions'[1].endMs, now',
                             pomodoroBreakMin)
      /\ (lastOp' = "autoPause" /\ sessions' # sessions) =>
           /\ pomodoroEnabled /\ pomodoroPhase = "focus" /\ isRunning
           /\ pomodoroEndMs # Null /\ now >= Val(pomodoroEndMs)
           /\ sessions'[1].endMs >= Val(pomodoroEndMs) ]_vars

\* the ticker has just paused a timer that ran for the focus minutes, and the
\* break ends the break minutes later
C21_Witness ==
  /\ lastOp = "autoPause"
  /\ pomodoroEnabled
  /\ pomodoroPhase = "break"
  /\ runningSlotEmpty(isRunning, runningStartMs, runningTitle)
  /\ Len(sessions) = 1
  /\ sessions[1].endMs = sessions[1].startMs + phaseLength(pomodoroFocusMin)
  /\ pomodoroEndMs = Some(sessions[1].endMs + phaseLength(pomodoroBreakMin))

\* the title of a timer the ticker starts: the task input, else the previous
\* running title, else "Untitled Task"
continuedTitle ==
  IF Trim(taskTitle) # EmptyStr THEN Trim(taskTitle)
  ELSE IF runningTitle # EmptyStr THEN runningTitle
  ELSE UntitledTask

\* C22: with Pomodoro enabled, a ticker run that finds the phase break, no
\* timer running and now >= pomodoroEndMs adds no session; with auto-continue
\* on it starts a timer at the clock reading, titled with the task input, else
\* the previous running title, else "Untitled Task" (also for a blank input),
\* and the phase becomes focus with pomodoroEndMs = the start + the focus
\* minutes; with auto-continue off the phase becomes idle, pomodoroEndMs null
\* and no timer starts.
C22_BreakOver ==
  [][ ( /\ pomodoroTicker /\ pomodoroEnabled /\ pomodoroPhase = "break"
        /\ ~isRunning /\ pomodoroEndMs # Null /\ now >= Val(pomodoroEndMs) ) =>
        /\ sessions' = sessions
        /\ IF pomodoroAutoContinue
             THEN /\ lastOp' = "autoContinue"
                  /\ isRunning'
                  /\ runningStartMs' # Null
                  /\ Val(runningStartMs') \in now..now'
                  /\ runningTitle' = continuedTitle
                  /\ pomodoroPhase' = "focus"
                  /\ pomodoroEndMs' =
                       Some(Val(runningStartMs') + phaseLength(pomodoroFocusMin))
             ELSE /\ lastOp' = "breakOver"
                  /\ pomodoroPhase' = "idle"
                  /\ pomodoroEndMs' = Null
                  /\ ~isRunning'
                  /\ runningStartMs' = Null ]_vars

\* after the break that followed a recorded session the ticker started a
\* timer although the task input is blank, under the title "Untitled Task"
C22_Witness ==
  /\ lastOp = "autoContinue"
  /\ pomodoroEnabled /\ pomodoroAutoContinue
  /\ Trim(taskTitle) = EmptyStr
  /\ isRunning
  /\ runningTitle = UntitledTask
  /\ pomodoroPhase = "focus"
  /\ Len(sessions) = 1
  /\ Val(runningStartMs) >= sessions[1].endMs + phaseLength(pomodoroBreakMin)
  /\ pomodoroEndMs = Some(Val(runningStartMs) + phaseLength(pomodoroFocusMin))

\* with auto-continue off the break ended in the idle phase, with no timer
C22_IdleWitness ==
  /\ lastOp = "breakOver"
  /\ pomodoroEnabled /\ ~pomodoroAutoContinue
  /\ pomodoroPhase = "idle" /\ pomodoroEndMs = Null
  /\ ~isRunning
  /\ Len(sessions) = 1

(* ------------------ the Pomodoro cycle left to itself ------------------ *)
\* no timer has been started yet: the user sets the page up and starts
nothingStarted ==
  ~isRunning /\ sessions = <<>> /\ pomodoroPhase = "idle"

\* the user's actions up to the start request; after it the page is left
\* alone
setUpAndStart ==
  /\ nothingStarted
  /\ \/ handleStart
     \/ \E v \in {<<"a">>, <<" ">>} : setTaskTitle(v)
     \/ setPomodoroEnabled
     \/ setPomodoroAutoContinue
     \/ \E n \in MinuteInputs : setPomodoroFocusMin(n)
     \/ \E n \in MinuteInputs : setPomodoroBreakMin(n)

NextCycleLive ==
  \/ setUpAndStart
  \/ tick
  \/ pomodoroTicker

\* the clock advances, and the interval of the ticker (setInterval, 1000 ms)
\* keeps calling it
SpecCycleLive ==
  /\ Init
  /\ [][NextCycleLive]_vars
  /\ WF_vars(tick)
  /\ WF_vars(pomodoroTicker)

(* ================ liveness of the Pomodoro cycle ======================= *)
\* the cycle runs by itself: Pomodoro is enabled with auto-continue on
cycleOn == pomodoroEnabled /\ pomodoroAutoContinue

\* the phase ends within the clock range explored
endsInRange == pomodoroEndMs # Null /\ Val(pomodoroEndMs) <= MaxTime

inFocus == pomodoroPhase = "focus" /\ isRunning
inBreak == pomodoroPhase = "break" /\ ~isRunning

\* C23: when Pomodoro is enabled with auto-continue on, a timer has been
\* started by a start request and the page is then left alone while the clock
\* advances and the ticker keeps firing, every focus phase is followed by a
\* break (the timer is paused automatically) and every break by a new focus
\* phase with a running timer; the phases change in no other way, and exactly
\* one session is recorded at the end of every focus phase and none
\* otherwise.  On the bounded clock this is stated for every phase that ends
\* within the range explored.
C23_CycleAlternates ==
  /\ [](( cycleOn /\ inFocus /\ endsInRange ) => <>inBreak)
  /\ [](( cycleOn /\ inBreak /\ endsInRange ) => <>inFocus)
  /\ [][ (cycleOn /\ ~nothingStarted) =>
           /\ (inFocus /\ ~inFocus') =>
                inBreak' /\ Len(sessions') = Len(sessions) + 1
           /\ (inBreak /\ ~inBreak') => inFocus' /\ sessions' = sessions
           /\ sessions' # sessions => inFocus /\ inBreak' ]_vars

\* the second focus phase has begun: the first one was recorded as one
\* session, and the break after it is over
C23_Witness ==
  /\ cycleOn
  /\ lastOp = "autoContinue"
  /\ inFocus
  /\ Len(sessions) = 1
  /\ sessions[1].endMs - sessions[1].startMs >= phaseLength(pomodoroFocusMin)
  /\ Val(runningStartMs) - sessions[1].endMs >= phaseLength(pomodoroBreakMin)

(* ------------------- the report page over localStorage ----------------- *)
\* the keys of the timer page
SESSIONS_KEY == "timertrack.sessions.v1"
RUNNING_KEY == "timertrack.running.v1"
TAG_COLORS_KEY == "timertrack.tagcolors.v1"
POMODORO_SETTINGS_KEY == "timertrack.pomodoro.v1"
\* the key of the report page: localStorage.getItem("timerSessions")
ReportSessionsKey == "timerSessions"

\* localStorage.getItem(key) after the timer page's persist effects: the
\* items under its four keys, and no item under any other key
getItem(key) ==
  CASE key = SESSIONS_KEY -> rawOf(storage).sessions
    [] key = RUNNING_KEY -> rawOf(storage).running
    [] key = TAG_COLORS_KEY -> rawOf(storage).tagColors
    [] key = POMODORO_SETTINGS_KEY -> rawOf(storage).pomodoro
    [] OTHER -> Missing

\* the mount of the report page in the browser the timer page runs in: args
\* is the key it reads, result what its load effect makes of the item
reportMount ==
  /\ args = Null /\ result = Null
  /\ args' = <<ReportSessionsKey>>
  /\ result' = <<"report",
                 reportLoadEffect([ sessions |-> getItem(ReportSessionsKey) ])>>
  /\ UNCHANGED pageVars

\* the timer records and deletes sessions, and the report page is opened
NextReport ==
  \/ handleStart
  \/ handlePause
  \/ tick
  \/ \E v \in {<<"a">>, <<" ", "b">>} : setTaskTitle(v)
  \/ \E i \in 1..Len(weekSessionsSorted) : deleteSession(i)
  \/ reportMount

SpecReport == Init /\ [][NextReport]_vars

(* ===================== properties of the report page =================== *)
\* C24 (as claimed): after the timer page has persisted a session
\* collection, the session list the report page loads on its mount equals
\* that collection.
C24_ReportLoadsTimerSessions ==
  [][ reportMount =>
        /\ ~result'[2].error
        /\ result'[2].state.sessions = storage.sessions
        /\ storage.sessions = sessions ]_vars

\* what the report page loads instead: nothing, whatever the timer page has
\* recorded
C24_ReportLoadsNothing ==
  [][ reportMount =>
        /\ ~result'[2].error
        /\ result'[2].state.sessions = <<>>
        /\ storage.sessions = sessions ]_vars

\* the report page was opened after the timer page had stored two sessions
C24_TwoStoredWitness ==
  /\ result # Null /\ result[1] = "report"
  /\ Len(storage.sessions) = 2
  /\ result[2].state.sessions = <<>>

(* ==================== properties of the running slot =================== *)
\* C25: in every reachable state of the timer page (after the load of any
\* stored running record, and after any sequence of starts, pauses, Pomodoro
\* transitions and settings changes) isRunning is true if and only if
\* runningStartMs is a number.
C25_RunningIffStartMs == isRunning <=> runningStartMs # Null

\* a timer restored from the stored running record has been paused: the
\* session starts before the mount, and the slot is empty
C25_Witness ==
  /\ lastOp = "pause"
  /\ ~isRunning /\ runningStartMs = Null
  /\ Len(sessions) = 1
  /\ sessions[1].startMs < MountTime

\* the ticker started a timer after a break
C25_ContinuedWitness ==
  /\ lastOp = "autoContinue"
  /\ isRunning /\ runningStartMs # Null

(* =================== properties of the Pomodoro phase ================== *)
\* C26: in every reachable state the Pomodoro phase is idle if and only if
\* pomodoroEndMs is null, whatever the order of starts, pauses, ticker
\* transitions and changes of the Pomodoro settings.
C26_IdleIffNoEnd == pomodoroPhase = "idle" <=> pomodoroEndMs = Null

\* Pomodoro was switched off and the minutes were changed during a break: the
\* phase is still break and its end is still set
C26_Witness ==
  /\ ~pomodoroEnabled
  /\ pomodoroPhase = "break"
  /\ pomodoroEndMs # Null
  /\ pomodoroFocusMin # DefaultFocusMin
  /\ pomodoroBreakMin # DefaultBreakMin
  /\ Len(sessions) = 1

\* C27 (as claimed): whenever the phase is focus a timer is running, and
\* whenever the phase is break no timer is running, also when the Enable
\* checkbox is toggled between a start and a pause.
C27_PhaseMatchesRunning ==
  /\ pomodoroPhase = "focus" => isRunning
  /\ pomodoroPhase = "break" => ~isRunning

\* the half that holds: during a break no timer is running
C27_BreakNotRunning == pomodoroPhase = "break" => ~isRunning

\* the phase is focus and no timer is running, after a pause made while
\* Pomodoro was switched off
C27_FocusNotRunning ==
  /\ pomodoroPhase = "focus"
  /\ ~isRunning
  /\ lastOp = "pause"
  /\ ~pomodoroEnabled

(* =================== properties of the week navigation ================= *)
\* the week shown is the week of the clock
showsCurrentWeek ==
  weekStart = startOfWeek(now) /\ weekEnd = endOfWeek(now)

\* C28 (as claimed): after any sequence of Previous, Today and Next clicks
\* selectedWeekOffset is <= 0, and it is 0 exactly when the displayed week is
\* the current week.
C28_NoFutureWeek ==
  /\ selectedWeekOffset <= 0
  /\ selectedWeekOffset = 0 <=> showsCurrentWeek

\* what holds while the page stays open: the offset is never positive, the
\* week shown never lies after the week of the clock, and a week shown under
\* another offset than 0 is not the current week
C28_NeverAhead ==
  /\ selectedWeekOffset <= 0
  /\ weekStart <= startOfWeek(now)
  /\ showsCurrentWeek => selectedWeekOffset = 0

\* the page shows its week under the offset 0 while the clock is in the next
\* week
C28_StaleWeek ==
  /\ selectedWeekOffset = 0
  /\ isCurrentWeek
  /\ weekEnd < now

(* ================== properties of the per-task totals ================== *)
\* the sum of the per-task week totals
sumTaskTotals == sumMap(perTaskWeekTotals, DOMAIN perTaskWeekTotals)

\* C29: for every session collection and week window the per-task week
\* totals add up to the week total of the completed sessions (the week total
\* without the running-timer term), and the title of every session selected
\* for the week is a key of the per-task totals.
C29_TaskTotalsPartition ==
  /\ sumTaskTotals =
       sumOverlap(selectedIdx(weekStart, weekEnd), weekStart, weekEnd)
  /\ sumTaskTotals = weekTotalMs - provisional(weekStart, weekEnd)
  /\ \A i \in selectedIdx(weekStart, weekEnd) :
       sessions[i].title \in DOMAIN perTaskWeekTotals
  /\ \A k \in DOMAIN perTaskWeekTotals :
       \E i \in selectedIdx(weekStart, weekEnd) : sessions[i].title = k

\* two sessions of one task overlap the week in part, a timer runs, and the
\* task's total is the sum of the two overlaps, below the week total
C29_Witness ==
  /\ Len(sessions) = 2
  /\ sessions[1].title = sessions[2].title
  /\ overlapDuration(sessions[1], weekStart, weekEnd) > 0
  /\ overlapDuration(sessions[2], weekStart, weekEnd) > 0
  /\ overlapDuration(sessions[1], weekStart, weekEnd)
       < sessions[1].endMs - sessions[1].startMs
  /\ DOMAIN perTaskWeekTotals = { sessions[1].title }
  /\ perTaskWeekTotals[sessions[1].title] =
       overlapDuration(sessions[1], weekStart, weekEnd)
       + overlapDuration(sessions[2], weekStart, weekEnd)
  /\ isRunning
  /\ sumTaskTotals < weekTotalMs

\* two tasks, each with its own total
C29_TwoTasksWitness ==
  /\ Len(sessions) = 2
  /\ sessions[1].title # sessions[2].title
  /\ DOMAIN perTaskWeekTotals = { sessions[1].title, sessions[2].title }
  /\ perTaskWeekTotals[sessions[1].title] > 0
  /\ perTaskWeekTotals[sessions[2].title] > 0

(* ================= properties of the title of a pause ================== *)
\* C30: the session a pause creates is titled with the trimmed content of
\* the task input at the moment of the pause when that content is not blank,
\* and with the title the timer was started with only when the input is
\* blank; an input edited while the timer runs gives the session the edited
\* title, not the running title.
C30_PauseTitleFromInput ==
  [][ (isRunning /\ ~isRunning') =>
        /\ Len(sessions') = Len(sessions) + 1
        /\ ~blank(taskTitle) => sessions'[1].title = Trim(taskTitle)
        /\ (blank(taskTitle) /\ runningTitle # EmptyStr) =>
             sessions'[1].title = runningTitle
        /\ (~blank(taskTitle) /\ Trim(taskTitle) # runningTitle) =>
             sessions'[1].title # runningTitle ]_vars

\* a pause recorded the trimmed content of the input, " b", next to an
\* earlier session of the task a
C30_Witness ==
  /\ lastOp = "pause"
  /\ taskTitle = <<" ", "b">>
  /\ Len(sessions) = 2
  /\ sessions[1].title = <<"b">>
  /\ sessions[2].title = <<"a">>

\* the input reads b while the timer started as a is running and shown as a
C30_EditedWhileRunning ==
  /\ isRunning
  /\ runningTitle = <<"a">>
  /\ Trim(taskTitle) = <<"b">>
  /\ Val(runningStartMs) < now

\* the input was blanked while the timer ran, and the pause recorded the
\* title the timer was started with
C30_BlankInputWitness ==
  /\ lastOp = "pause"
  /\ blank(taskTitle)
  /\ Len(sessions) = 1
  /\ sessions[1].title = <<"a">>

====
